---- MODULE Spec2Model ----
(***************************************************************************)
(* Transaction store (src/module/transaction_storage.py) and bank resolver *)
(* (src/module/generate_qrcode.py) of app_biance.                          *)
(*                                                                         *)
(* A datetime is the number of seconds since the first modelled midnight;  *)
(* a day file is named by its day index, and a day file that does not      *)
(* exist is the empty sequence (save never writes an empty list).  A dict  *)
(* is a TLA+ record or function whose DOMAIN is the set of keys present,   *)
(* so that dict.get(key, default) is modelled by what it does.             *)
(***************************************************************************)
EXTENDS Integers, Sequences, FiniteSets, TLC

VARIABLES files,    \* base_dir: day index -> list of transaction records
          corrupt,  \* day files whose content is not parseable JSON
          op,       \* the last call: its name and arguments
          ret,      \* what the last call returned: [raised, val]
          banks,    \* bank_list.json: whether it exists, and its (key, info) items
          callers   \* concurrent callers of save_transaction: where each one is

vars == <<files, corrupt, op, ret, banks, callers>>

----------------------------------------------------------------------------
(* Bounds of the model *)

NumDays == 3        \* calendar days modelled, 0 .. NumDays - 1
MonthLen == 3       \* days in a month (day d has day-of-month d % MonthLen + 1)
SecPerDay == 2      \* seconds in a day
MaxRecords == 2     \* records stored over all day files

MsPerSec == 1000

Days == 0 .. (NumDays - 1)
Times == 0 .. (NumDays * SecPerDay - 1)
MsTimes == {t * MsPerSec : t \in Times}
Orders == {"", "A", "B"}
Statuses == {"NEW", "PAID"}
Limits == 0 .. MaxRecords

----------------------------------------------------------------------------
(* Python helpers *)

\* dict.get(key, default)
Get(d, key, default) == IF key \in DOMAIN d THEN d[key] ELSE default

\* d[key] = value on a dict
Put(d, key, value) == [k \in DOMAIN d \cup {key} |-> IF k = key THEN value ELSE d[k]]

\* truthiness of a str: the empty string is falsy
Truthy(s) == s # ""

\* datetime.strftime("%Y-%m-%d"): the calendar day of a datetime
Date(t) == t \div SecPerDay

DayOfMonth(t) == (Date(t) % MonthLen) + 1

\* the result of a call that returned v, and of a call that raised
Returned(v) == [raised |-> FALSE, val |-> v]
Raised == [raised |-> TRUE, val |-> <<>>]

RECURSIVE Concat(_)
Concat(lists) == IF lists = <<>> THEN <<>> ELSE Head(lists) \o Concat(Tail(lists))

\* the days present as day files, as glob() finds them
Existing(fs) == {d \in Days : fs[d] # <<>>}

\* json.load of a day file raises when its content is malformed
Unreadable(bad, d) == d \in bad

----------------------------------------------------------------------------
(* TransactionStorage *)

\* _get_date_file_path: the day file of a datetime
_get_date_file_path(date) == Date(date)

\* _get_qr_filename: {type}_{YYYYMMDD_HHMMSS}_{order_number}.png
_get_qr_filename(transaction_type, order_number, timestamp) ==
    <<transaction_type, timestamp, order_number>>

\* save_transaction, lines 54-72: the record as it is stored
stored_info(transaction_info, qr_image, order_status, now) ==
    LET timestamp == Get(transaction_info, "timestamp", now)
        i1 == Put(transaction_info, "timestamp", timestamp)
        i2 == IF Truthy(order_status) THEN Put(i1, "order_status", order_status) ELSE i1
    IN  IF qr_image
        THEN Put(i2, "qr_path", _get_qr_filename(i2.type, i2.order_number, timestamp))
        ELSE i2

\* the index of the first record with this order_number, 0 when there is none
first_match(transactions, order_number) ==
    IF \E i \in DOMAIN transactions : transactions[i].order_number = order_number
    THEN CHOOSE i \in DOMAIN transactions :
            /\ transactions[i].order_number = order_number
            /\ \A j \in 1 .. (i - 1) : transactions[j].order_number # order_number
    ELSE 0

\* a save that never looks the order number up
existing_index_skipped(transactions, order_number) == 0

\* save_transaction, lines 74-82: a falsy order_number is never looked up
existing_index(transactions, order_number) ==
    IF Truthy(order_number) THEN first_match(transactions, order_number) ELSE 0

\* a save that drops the entry it finds and appends the new one
put_transaction_moved(transactions, info) ==
    Append(SelectSeq(transactions,
                     LAMBDA t : ~(Truthy(info.order_number)
                                  /\ t.order_number = info.order_number)),
           info)

\* a save that puts a new entry in front
put_transaction_front(transactions, info) ==
    LET i == existing_index(transactions, info.order_number)
    IN  IF i # 0 THEN [transactions EXCEPT ![i] = info] ELSE <<info>> \o transactions

\* a save that keeps the fields of the entry it replaces that the new record
\* does not carry
put_transaction_merged(transactions, info) ==
    LET i == existing_index(transactions, info.order_number)
        old == transactions[i]
    IN  IF i # 0
        THEN [transactions EXCEPT ![i] =
                [k \in DOMAIN old \cup DOMAIN info |->
                    IF k \in DOMAIN info THEN info[k] ELSE old[k]]]
        ELSE Append(transactions, info)

\* save_transaction, lines 84-91: replace in place, or append
put_transaction(transactions, info) ==
    LET i == existing_index(transactions, info.order_number)
    IN  IF i # 0 THEN [transactions EXCEPT ![i] = info] ELSE Append(transactions, info)

\* json.load of an existing day file: the list, or the exception
read_json(fs, bad, date_file) ==
    IF Unreadable(bad, date_file) THEN Raised ELSE Returned(fs[date_file])

\* try: ... except Exception: return fallback
Except(outcome, fallback) == IF outcome.raised THEN Returned(fallback) ELSE outcome

\* save_transaction, lines 43-99: the day files after the body, and its outcome
save_try(fs, bad, transaction_info, qr_image, order_status, now) ==
    LET info == stored_info(transaction_info, qr_image, order_status, now)
        date_file == _get_date_file_path(info.timestamp)
        read == IF fs[date_file] = <<>> THEN Returned(<<>>) ELSE read_json(fs, bad, date_file)
    IN  IF read.raised
        THEN [files |-> fs, ret |-> Raised]
        ELSE [files |-> [fs EXCEPT ![date_file] = put_transaction(read.val, info)],
              ret |-> Returned(info)]

\* save_transaction: the except clause logs and raises again
save_transaction(fs, bad, transaction_info, qr_image, order_status, now) ==
    save_try(fs, bad, transaction_info, qr_image, order_status, now)

\* get_transactions_by_date, lines 108-113
by_date_try(fs, bad, date) ==
    LET date_file == _get_date_file_path(date)
    IN  IF fs[date_file] = <<>> THEN Returned(<<>>) ELSE read_json(fs, bad, date_file)

\* get_transactions_by_date
get_transactions_by_date(fs, bad, date) == Except(by_date_try(fs, bad, date), <<>>)

\* datetime.replace(day=day + 1): the next day, or the ValueError "day is out
\* of range for month"
replace_next_day(current_date) ==
    IF DayOfMonth(current_date) + 1 > MonthLen THEN Raised
    ELSE Returned(current_date + SecPerDay)

\* get_transactions_by_date_range, lines 122-130
RECURSIVE by_range_try(_, _, _, _, _)
by_range_try(fs, bad, current_date, end_date, all_transactions) ==
    IF current_date <= end_date
    THEN LET transactions == get_transactions_by_date(fs, bad, current_date)
             next == replace_next_day(current_date)
         IN  IF transactions.raised \/ next.raised THEN Raised
             ELSE by_range_try(fs, bad, next.val, end_date,
                               all_transactions \o transactions.val)
    ELSE Returned(all_transactions)

\* get_transactions_by_date_range
get_transactions_by_date_range(fs, bad, start_date, end_date) ==
    Except(by_range_try(fs, bad, start_date, end_date, <<>>), <<>>)

\* get_transaction_by_order, lines 141-153: <<the record>>, or <<>> for None;
\* today is the reading of datetime.now()
by_order_try(fs, bad, today, order_number) ==
    LET date_file == _get_date_file_path(today)
        read == read_json(fs, bad, date_file)
        i == first_match(read.val, order_number)
    IN  IF fs[date_file] = <<>> THEN Returned(<<>>)
        ELSE IF read.raised THEN Raised
        ELSE IF i # 0 THEN Returned(<<read.val[i]>>)
        ELSE Returned(<<>>)

\* a lookup that goes through every day file, not only today's
get_transaction_by_order_any_day(fs, bad, today, order_number) ==
    LET all == Concat([i \in 1 .. NumDays |-> fs[i - 1]])
        i == first_match(all, order_number)
    IN  Returned(IF i # 0 THEN <<all[i]>> ELSE <<>>)

\* get_transaction_by_order
get_transaction_by_order(fs, bad, today, order_number) ==
    Except(by_order_try(fs, bad, today, order_number), <<>>)

\* sorted(glob("transactions_*.json"), reverse=True): the existing day files
\* from day d down to day 0
\* a listing of the day files in ascending file name order
RECURSIVE files_ascending(_, _)
files_ascending(fs, d) ==
    IF d < 0 THEN <<>>
    ELSE files_ascending(fs, d - 1) \o (IF fs[d] # <<>> THEN <<d>> ELSE <<>>)

RECURSIVE files_descending(_, _)
files_descending(fs, d) ==
    IF d < 0 THEN <<>>
    ELSE (IF fs[d] # <<>> THEN <<d>> ELSE <<>>) \o files_descending(fs, d - 1)

\* list.sort(key=timestamp, reverse=True), one insertion: the sort is stable,
\* so x goes behind every element whose timestamp is not smaller
insert_descending(sorted, x) ==
    LET n == Cardinality({i \in DOMAIN sorted :
                Get(sorted[i], "timestamp", 0) >= Get(x, "timestamp", 0)})
    IN  SubSeq(sorted, 1, n) \o <<x>> \o SubSeq(sorted, n + 1, Len(sorted))

RECURSIVE sort_descending(_, _)
sort_descending(sorted, rest) ==
    IF rest = <<>> THEN sorted
    ELSE sort_descending(insert_descending(sorted, Head(rest)), Tail(rest))

\* get_recent_transactions, lines 161-171
recent_try(fs, bad, limit) ==
    LET listing == files_descending(fs, NumDays - 1)
        all == Concat([i \in DOMAIN listing |-> fs[listing[i]]])
        sorted == sort_descending(<<>>, all)
    IN  IF \E i \in DOMAIN listing : read_json(fs, bad, listing[i]).raised THEN Raised
        ELSE Returned(SubSeq(sorted, 1, IF limit < Len(sorted) THEN limit ELSE Len(sorted)))

\* a listing of the recent transactions whose except clause is missing
get_recent_transactions_unguarded(fs, bad, limit) == recent_try(fs, bad, limit)

\* get_recent_transactions
get_recent_transactions(fs, bad, limit) == Except(recent_try(fs, bad, limit), <<>>)

\* load_used_orders, lines 193-199 and 208-212: the mapping after the records
\* of one day file; window is <<>> (no filter) or <<start_timestamp,
\* end_timestamp>> in milliseconds
in_window(transaction, window) ==
    \/ window = <<>>
    \/ /\ window # <<>>
       /\ window[1] <= Get(transaction, "timestamp", 0) * MsPerSec
       /\ Get(transaction, "timestamp", 0) * MsPerSec <= window[2]

RECURSIVE index_transactions(_, _, _)
index_transactions(used_orders, transactions, window) ==
    IF transactions = <<>> THEN used_orders
    ELSE LET transaction == Head(transactions)
             order_number == transaction.order_number
             order_status == Get(transaction, "order_status", "UNKNOWN")
             used == IF in_window(transaction, window) /\ Truthy(order_number)
                     THEN Put(used_orders, order_number, order_status)
                     ELSE used_orders
         IN  index_transactions(used, Tail(transactions), window)

\* load_used_orders, lines 185-200: one day file per step of timedelta(days=1)
\* while current_date <= end_date, both datetimes in milliseconds
RECURSIVE load_window(_, _, _, _, _)
load_window(fs, bad, current_date, window, used_orders) ==
    IF current_date <= window[2]
    THEN LET date_file == _get_date_file_path(current_date \div MsPerSec)
             read == read_json(fs, bad, date_file)
             step == current_date + SecPerDay * MsPerSec
         IN  IF fs[date_file] = <<>>
             THEN load_window(fs, bad, step, window, used_orders)
             ELSE IF read.raised THEN Raised
             ELSE load_window(fs, bad, step, window,
                              index_transactions(used_orders, read.val, window))
    ELSE Returned(used_orders)

\* load_used_orders, lines 203-212: every day file, in descending file name
\* order
RECURSIVE load_listing(_, _, _, _)
load_listing(fs, bad, listing, used_orders) ==
    IF listing = <<>> THEN Returned(used_orders)
    ELSE LET read == read_json(fs, bad, Head(listing))
         IN  IF read.raised THEN Raised
             ELSE load_listing(fs, bad, Tail(listing),
                               index_transactions(used_orders, read.val, <<>>))

\* load_used_orders, lines 182-213: window is <<>> when a bound is missing
load_try(fs, bad, window) ==
    IF window # <<>>
    THEN load_window(fs, bad, window[1], window, <<>>)
    ELSE load_listing(fs, bad, files_descending(fs, NumDays - 1), <<>>)

\* load_used_orders
load_used_orders(fs, bad, window) == Except(load_try(fs, bad, window), <<>>)

\* update_used_orders, lines 229-253: listing is the order in which glob()
\* enumerates the day files; the first file holding the order is rewritten and
\* the scan stops
RECURSIVE update_try(_, _, _, _, _)
update_try(fs, bad, listing, order_number, order_status) ==
    IF listing = <<>> THEN [files |-> fs, ret |-> Returned(FALSE)]
    ELSE LET date_file == Head(listing)
             read == read_json(fs, bad, date_file)
             i == first_match(read.val, order_number)
         IN  IF read.raised THEN [files |-> fs, ret |-> Raised]
             ELSE IF i # 0
             THEN [files |-> [fs EXCEPT ![date_file] =
                              [read.val EXCEPT ![i] = Put(@, "order_status", order_status)]],
                   ret |-> Returned(TRUE)]
             ELSE update_try(fs, bad, Tail(listing), order_number, order_status)

\* an update that does not stop at the first day file holding the order
update_every_file(fs, bad, listing, order_number, order_status) ==
    [files |-> [d \in DOMAIN fs |->
                   LET i == first_match(fs[d], order_number)
                   IN  IF i # 0
                       THEN [fs[d] EXCEPT ![i] = Put(@, "order_status", order_status)]
                       ELSE fs[d]],
     ret |-> Returned(\E d \in DOMAIN fs : first_match(fs[d], order_number) # 0)]

\* update_used_orders
update_used_orders(fs, bad, listing, order_number, order_status) ==
    LET r == update_try(fs, bad, listing, order_number, order_status)
    IN  [files |-> r.files, ret |-> Except(r.ret, FALSE)]

\* the orders in which glob() may enumerate the day files
Listings(fs) ==
    LET n == Cardinality(Existing(fs))
    IN  {l \in [1 .. n -> Existing(fs)] : \A i, j \in 1 .. n : l[i] = l[j] => i = j}

----------------------------------------------------------------------------------------------------------------------------------------
(* The calls.  The store is used by one synchronous caller: a call runs to *)
(* its end, the caller takes the result (Return) and makes the next call.  *)

Idle == [name |-> "idle"]

\* the callers that may run save_transaction at the same time, and a caller
\* that has not called yet
Callers == {"c1", "c2"}
Waiting == [pc |-> "idle"]

\* the transaction_info dicts a caller passes
Infos ==
    LET base == [type : {"buy"}, order_number : Orders]
        stamped == [type : {"buy"}, order_number : Orders, timestamp : Times]
    IN  base \cup stamped
        \cup {Put(i, "order_status", s) : i \in base \cup stamped, s \in Statuses}

\* the readings of datetime.now() that matter to a save of this dict
Clock(transaction_info) ==
    IF "timestamp" \in DOMAIN transaction_info THEN {transaction_info.timestamp} ELSE Times

Stored(fs) == Concat([i \in 1 .. NumDays |-> fs[i - 1]])

\* save_transaction(transaction_info, qr_image, order_status), plain or not
SaveOf(infos, images, statuses) ==
    /\ op = Idle
    /\ \E transaction_info \in infos, qr_image \in images, order_status \in statuses :
          \E now \in Clock(transaction_info) :
             LET r == save_transaction(files, corrupt, transaction_info, qr_image,
                                       order_status, now)
             IN  /\ Len(Stored(r.files)) <= MaxRecords
                 /\ files' = r.files
                 /\ ret' = r.ret
                 /\ op' = [name |-> "save", transaction_info |-> transaction_info,
                           qr_image |-> qr_image, order_status |-> order_status,
                           now |-> now]
    /\ UNCHANGED <<corrupt, banks, callers>>

Save == SaveOf(Infos, BOOLEAN, {""} \cup Statuses)

UpdateOrderStatus ==
    /\ op = Idle
    /\ \E listing \in Listings(files), order_number \in Orders, order_status \in Statuses :
          LET r == update_used_orders(files, corrupt, listing, order_number, order_status)
          IN  /\ files' = r.files
              /\ ret' = r.ret
              /\ op' = [name |-> "update", listing |-> listing,
                        order_number |-> order_number, order_status |-> order_status]
    /\ UNCHANGED <<corrupt, banks, callers>>

QueryByDate ==
    /\ op = Idle
    /\ \E date \in Times :
          /\ ret' = get_transactions_by_date(files, corrupt, date)
          /\ op' = [name |-> "by_date", date |-> date]
    /\ UNCHANGED <<files, corrupt, banks, callers>>

QueryByRange ==
    /\ op = Idle
    /\ \E start_date, end_date \in Times :
          /\ ret' = get_transactions_by_date_range(files, corrupt, start_date, end_date)
          /\ op' = [name |-> "by_range", start_date |-> start_date,
                    end_date |-> end_date]
    /\ UNCHANGED <<files, corrupt, banks, callers>>

FindByOrder ==
    /\ op = Idle
    /\ \E today \in Times, order_number \in Orders :
          /\ ret' = get_transaction_by_order(files, corrupt, today, order_number)
          /\ op' = [name |-> "by_order", today |-> today, order_number |-> order_number]
    /\ UNCHANGED <<files, corrupt, banks, callers>>

RecentTransactions ==
    /\ op = Idle
    /\ \E limit \in Limits :
          /\ ret' = get_recent_transactions(files, corrupt, limit)
          /\ op' = [name |-> "recent", limit |-> limit]
    /\ UNCHANGED <<files, corrupt, banks, callers>>

LoadOrderStatusIndex ==
    /\ op = Idle
    /\ \E window \in {<<>>} \cup (MsTimes \X MsTimes) :
          /\ ret' = load_used_orders(files, corrupt, window)
          /\ op' = [name |-> "load", window |-> window]
    /\ UNCHANGED <<files, corrupt, banks, callers>>

\* the caller takes the result of the call
Return ==
    /\ op # Idle
    /\ op' = Idle
    /\ ret' = Returned(<<>>)
    /\ UNCHANGED <<files, corrupt, banks, callers>>

Init ==
    /\ files = [d \in Days |-> <<>>]
    /\ corrupt = {}
    /\ op = Idle
    /\ ret = Returned(<<>>)
    /\ banks = [present |-> FALSE, items |-> <<>>]
    /\ callers = [c \in Callers |-> Waiting]

Next ==
    \/ Save
    \/ UpdateOrderStatus
    \/ QueryByDate
    \/ QueryByRange
    \/ FindByOrder
    \/ RecentTransactions
    \/ LoadOrderStatusIndex
    \/ Return

Spec == Init /\ [][Next]_vars

----------------------------------------------------------------------------
(* The store on a file system where day files get damaged *)

\* between two calls a day file is damaged from outside (a torn write, a
\* manual edit): its content is no longer parseable JSON
Corrupt ==
    /\ op = Idle
    /\ \E d \in Days :
          /\ files[d] # <<>>
          /\ d \notin corrupt
          /\ corrupt' = corrupt \cup {d}
    /\ UNCHANGED <<files, op, ret, banks, callers>>

PlainInfos == [type : {"buy"}, order_number : Orders, timestamp : Times]

SavePlain == SaveOf(PlainInfos, {FALSE}, {""})

IONext ==
    \/ SavePlain
    \/ UpdateOrderStatus
    \/ QueryByDate
    \/ QueryByRange
    \/ FindByOrder
    \/ RecentTransactions
    \/ LoadOrderStatusIndex
    \/ Corrupt
    \/ Return

SpecIO == Init /\ [][IONext]_vars

----------------------------------------------------------------------------
(* save_transaction run by two callers at once.  The store takes no lock,  *)
(* so the steps of the calls interleave: the read of the day file (lines   *)
(* 48-52), open(date_file, 'w'), which truncates it (line 94), and the     *)
(* json.dump that is on disk when the file is closed (line 95).            *)

\* the day file a caller inside save_transaction works on
date_file_of(c) == _get_date_file_path(callers[c].info.timestamp)

\* some caller has truncated this day file and not written its list yet
Truncated(date_file) ==
    \E c \in Callers : callers[c].pc = "dump" /\ date_file_of(c) = date_file

\* the callers whose json.dump is on disk
Dumped == {c \in Callers : callers[c].pc = "done" /\ ~callers[c].ret.raised}

\* a write that keeps the entries on disk whose order numbers the list lacks
save_write_merged(fs, date_file, transactions) ==
    [fs EXCEPT ![date_file] =
        SelectSeq(@, LAMBDA t : \A i \in DOMAIN transactions :
                                   transactions[i].order_number # t.order_number)
        \o transactions]

\* json.dump of the list a caller holds, lines 93-95: the file is the list
save_write(fs, date_file, transactions) == [fs EXCEPT ![date_file] = transactions]

\* lines 43-46: the call is made, the timestamp and the day file are fixed
BeginSave ==
    /\ op = Idle
    /\ \E c \in Callers, transaction_info \in PlainInfos :
          /\ callers[c].pc = "idle"
          /\ callers' = [callers EXCEPT ![c] =
                [pc |-> "read",
                 info |-> stored_info(transaction_info, FALSE, "",
                                      transaction_info.timestamp)]]
    /\ UNCHANGED <<files, corrupt, op, ret, banks>>

\* lines 48-52: an absent file is the empty list; a file that is damaged, or
\* truncated by a writer that has not dumped yet, makes json.load raise, and
\* the call raises (lines 101-103)
ReadFile ==
    /\ op = Idle
    /\ \E c \in Callers :
          /\ callers[c].pc = "read"
          /\ LET date_file == date_file_of(c)
                 exists == files[date_file] # <<>> \/ Truncated(date_file)
                 read == IF ~exists THEN Returned(<<>>)
                         ELSE IF Truncated(date_file) THEN Raised
                         ELSE read_json(files, corrupt, date_file)
             IN  callers' = [callers EXCEPT ![c] =
                    IF read.raised
                    THEN [pc |-> "done", info |-> callers[c].info, ret |-> Raised]
                    ELSE [pc |-> "write", info |-> callers[c].info,
                          transactions |-> read.val, seen |-> Dumped]]
    /\ UNCHANGED <<files, corrupt, op, ret, banks>>

\* lines 84-94: the entry is replaced or appended in the list read, and the
\* day file is opened for writing
OpenFile ==
    /\ op = Idle
    /\ \E c \in Callers :
          /\ callers[c].pc = "write"
          /\ callers' = [callers EXCEPT ![c] =
                [pc |-> "dump", info |-> callers[c].info,
                 transactions |-> put_transaction(callers[c].transactions,
                                                  callers[c].info),
                 seen |-> callers[c].seen, overlapped |-> FALSE]]
    /\ UNCHANGED <<files, corrupt, op, ret, banks>>

\* lines 95-99: the list is written and the call returns.  When another
\* caller has written the file since this one opened it, both wrote from
\* offset 0: the file holds this list, or this list followed by the rest of
\* a longer one, which is not parseable.
DumpFile ==
    /\ op = Idle
    /\ \E c \in Callers, torn \in BOOLEAN :
          /\ callers[c].pc = "dump"
          /\ torn => callers[c].overlapped
          /\ LET date_file == date_file_of(c)
             IN  /\ files' = save_write(files, date_file, callers[c].transactions)
                 /\ corrupt' = IF torn THEN corrupt \cup {date_file}
                               ELSE corrupt \ {date_file}
                 /\ callers' = [o \in Callers |->
                       IF o = c
                       THEN [pc |-> "done", info |-> callers[c].info,
                             ret |-> Returned(callers[c].info),
                             seen |-> callers[c].seen, before |-> Dumped]
                       ELSE IF callers[o].pc = "dump" /\ date_file_of(o) = date_file
                       THEN [callers[o] EXCEPT !.overlapped = TRUE]
                       ELSE callers[o]]
    /\ UNCHANGED <<op, ret, banks>>

RaceNext ==
    \/ BeginSave
    \/ ReadFile
    \/ OpenFile
    \/ DumpFile

SpecRace == Init /\ [][RaceNext]_vars

----------------------------------------------------------------------------
(* Bank resolver.  A str is the sequence of its characters; "a^" is an     *)
(* accented a, which NFKD decomposes into "a" and a combining mark.        *)

MaxQueryLen == 3    \* characters in a bank name passed to get_nganhang_id

\* unicodedata.normalize('NFKD', c) without the combining characters
Base(c) == IF c = "a^" THEN "a" ELSE c

\* str.lower, one character
Lower(c) ==
    CASE c = "A" -> "a" [] c = "B" -> "b" [] c = "C" -> "c" [] c = "M" -> "m"
      [] c = "Q" -> "q" [] c = "T" -> "t" [] OTHER -> c

\* normalize_text: None and "" give "", else strip the accents, lower, drop " "
RECURSIVE normalize_text(_)
normalize_text(text) ==
    IF text = <<>> THEN <<>>
    ELSE LET c == Lower(Base(Head(text)))
         IN  (IF c = " " THEN <<>> ELSE <<c>>) \o normalize_text(Tail(text))

\* a in b, for two str
Contains(b, a) ==
    \E i \in 0 .. (Len(b) - Len(a)) : SubSeq(b, i + 1, i + Len(a)) = a

\* the length of a longest common subsequence
RECURSIVE LCS(_, _)
LCS(a, b) ==
    IF a = <<>> \/ b = <<>> THEN 0
    ELSE IF Head(a) = Head(b) THEN 1 + LCS(Tail(a), Tail(b))
    ELSE LET x == LCS(Tail(a), b)
             y == LCS(a, Tail(b))
         IN  IF x >= y THEN x ELSE y

\* rapidfuzz.fuzz.token_sort_ratio of two normalized str (no whitespace is
\* left in them, so each is one token): 100 * 2 * LCS / (len(a) + len(b)),
\* kept as the fraction num / den; 0 when one of them is empty
token_sort_ratio(a, b) ==
    IF a = <<>> \/ b = <<>> THEN [num |-> 0, den |-> 1]
    ELSE [num |-> 200 * LCS(a, b), den |-> Len(a) + Len(b)]

\* score >= n and score1 < score2 on such fractions
AtLeast(score, n) == score.num >= n * score.den
Below(score1, score2) == score1.num * score2.den < score2.num * score1.den

\* find_best_match, lines 230-240: the choices process.extractOne may return
\* as (original_match, score); which of several it is depends on the order in
\* which the set of candidates is enumerated
best_matches(query, choices) ==
    LET norm_query == normalize_text(query)
        score(c) == token_sort_ratio(norm_query, normalize_text(c))
    IN  {[text |-> c, score |-> score(c)] :
            c \in {c \in choices : \A d \in choices : ~Below(score(c), score(d))}}

\* find_best_match: <<(original_match, score)>>, or <<>> for None; pick is the
\* candidate the enumeration order favours
find_best_match(query, choices, pick) ==
    IF choices = {} THEN <<>>
    ELSE <<CHOOSE m \in best_matches(query, choices) : m.text = pick>>

\* the candidate strings of one directory entry
Candidates(e) == <<e.key, e.info.name, e.info.code, e.info.short_name>>

\* get_nganhang_id, lines 178-185
all_candidates(items) ==
    {Candidates(items[i])[k] : i \in DOMAIN items, k \in 1 .. 4}

\* the first index of seq that satisfies Test, 0 when there is none
First(seq, Test(_)) ==
    IF \E i \in DOMAIN seq : Test(seq[i])
    THEN CHOOSE i \in DOMAIN seq : Test(seq[i]) /\ \A j \in 1 .. (i - 1) : ~Test(seq[j])
    ELSE 0

FuzzyThreshold == 66

\* a fuzzy pass that takes the best match whatever its score
fuzzy_pass_any_score(items, name_bank, pick) ==
    LET result == find_best_match(name_bank, all_candidates(items), pick)
        match_text == result[1].text
        owns(e) == match_text \in {e.info.name, e.info.code, e.info.short_name}
        i == First(items, owns)
    IN  IF result = <<>> THEN <<>>
        ELSE IF i # 0 THEN <<items[i].info.bin>>
        ELSE <<>>

\* get_nganhang_id, lines 187-204: <<bin>>, or <<>> for None
fuzzy_pass(items, name_bank, pick) ==
    LET result == find_best_match(name_bank, all_candidates(items), pick)
        match_text == result[1].text
        owns(e) == match_text \in {e.info.name, e.info.code, e.info.short_name}
        i == First(items, owns)
    IN  IF result = <<>> THEN <<>>
        ELSE IF ~AtLeast(result[1].score, FuzzyThreshold) THEN <<>>
        ELSE IF i # 0 THEN <<items[i].info.bin>>
        ELSE <<>>

\* get_nganhang_id, lines 147-148: "MB" is looked up as "MBBank"
rewrite_mb(name_bank) ==
    IF normalize_text(name_bank) = <<"m", "b">>
    THEN <<"M", "B", "B", "a", "n", "k">> ELSE name_bank

\* get_nganhang_id, lines 149-204
nganhang_try(bk, name_bank0, pick) ==
    LET name_bank == rewrite_mb(name_bank0)
        name_bank_norm == normalize_text(name_bank)
        items == bk.items
        exact(e) == normalize_text(e.key) = name_bank_norm
        near(e) == \E k \in 1 .. 4 :
                      Contains(normalize_text(Candidates(e)[k]), name_bank_norm)
        i1 == First(items, exact)
        i2 == First(items, near)
    IN  IF ~bk.present THEN Raised
        ELSE IF i1 # 0 THEN Returned(<<items[i1].info.bin>>)
        ELSE IF i2 # 0 THEN Returned(<<items[i2].info.bin>>)
        ELSE Returned(fuzzy_pass(items, name_bank, pick))

\* get_nganhang_id: every exception is logged and gives None
get_nganhang_id(bk, name_bank, pick) == Except(nganhang_try(bk, name_bank, pick), <<>>)

\* get_nganhang_api, lines 66-82: the directory keyed by shortName, or by code
\* when the bank has no shortName; a bank without code is left out
RECURSIVE format_banks(_, _)
format_banks(formatted_banks, data) ==
    IF data = <<>> THEN formatted_banks
    ELSE LET bank == Head(data)
             bank_code == Get(bank, "code", <<>>)
             key == Get(bank, "shortName", bank_code)
             entry == [key |-> key,
                       info |-> [name |-> Get(bank, "name", <<>>),
                                 code |-> bank_code,
                                 bin |-> Get(bank, "bin", ""),
                                 short_name |-> Get(bank, "short_name", <<>>)]]
             same(e) == e.key = key
             i == First(formatted_banks, same)
         IN  IF bank_code = <<>> THEN format_banks(formatted_banks, Tail(data))
             ELSE IF i # 0
             THEN format_banks([formatted_banks EXCEPT ![i] = entry], Tail(data))
             ELSE format_banks(Append(formatted_banks, entry), Tail(data))

\* get_nganhang_api: response is <<data>>, or <<>> when the request failed;
\* the new directory file, and <<formatted_banks>> or <<>> for None
get_nganhang_api(bk, response) ==
    IF response = <<>> THEN [banks |-> bk, ret |-> Returned(<<>>)]
    ELSE LET formatted_banks == format_banks(<<>>, response[1])
         IN  [banks |-> [present |-> TRUE, items |-> formatted_banks],
              ret |-> Returned(<<formatted_banks>>)]

\* the banks the directory source may list
BankMB ==
    [code |-> <<"M", "B">>, shortName |-> <<"M", "B", "B", "a", "n", "k">>,
     name |-> <<"Q", "u", "a^", "n", " ", "d", "o", "i">>, bin |-> "970422"]
BankABB ==
    [code |-> <<"A", "B", "B">>, shortName |-> <<"A", "B", "B", "A", "N", "K">>,
     name |-> <<"A", "n", " ", "B", "i", "n", "h">>, bin |-> "970425"]
BankTCB ==
    [code |-> <<"T", "C", "B">>, shortName |-> <<"B", "a", "m">>,
     name |-> <<"K", "y", " ", "T", "h", "u", "o", "n", "g">>, bin |-> "970407"]
BankCB ==
    [code |-> <<"C", "B">>, name |-> <<"X", "a^", "y", " ", "d", "u", "n", "g">>,
     bin |-> "970444"]

Responses ==
    {<<>>, <<<<>>>>, <<<<BankMB>>>>, <<<<BankMB, BankABB>>>>, <<<<BankTCB, BankMB>>>>,
     <<<<BankABB, BankCB, BankTCB>>>>}

\* the bank names a caller asks for
QChars == {"a", "b", "m", "M", " ", "a^"}
StrOfLen(n) == [1 .. n -> QChars]
Queries == UNION {StrOfLen(n) : n \in 0 .. MaxQueryLen}

\* the candidates the enumeration order of the candidate set may favour
Picks(bk, name_bank) ==
    LET choices == all_candidates(bk.items)
    IN  IF choices = {} THEN {<<>>}
        ELSE {m.text : m \in best_matches(rewrite_mb(name_bank), choices)}

RefreshDirectory ==
    /\ op = Idle
    /\ \E response \in Responses :
          LET r == get_nganhang_api(banks, response)
          IN  /\ banks' = r.banks
              /\ ret' = r.ret
              /\ op' = [name |-> "refresh", response |-> response]
    /\ UNCHANGED <<files, corrupt, callers>>

Resolve ==
    /\ op = Idle
    /\ \E name_bank \in Queries :
          \E pick \in Picks(banks, name_bank) :
             /\ ret' = get_nganhang_id(banks, name_bank, pick)
             /\ op' = [name |-> "resolve", name_bank |-> name_bank, pick |-> pick]
    /\ UNCHANGED <<files, corrupt, banks, callers>>

ResolveNext ==
    \/ RefreshDirectory
    \/ Resolve
    \/ Return

ResolveSpec == Init /\ [][ResolveNext]_vars

----------------------------------------------------------------------------
(* Properties of the transaction store *)

\* the positions of a day file that hold this order number
Held(transactions, order_number) ==
    {i \in DOMAIN transactions : transactions[i].order_number = order_number}

\* the order numbers of a day file, each once, in the order of first occurrence
RECURSIVE FirstSaves(_)
FirstSaves(transactions) ==
    IF transactions = <<>> THEN <<>>
    ELSE LET front == FirstSaves(SubSeq(transactions, 1, Len(transactions) - 1))
             o == transactions[Len(transactions)].order_number
         IN  IF \E i \in DOMAIN front : front[i] = o THEN front ELSE Append(front, o)

\* a step that is a call of save which returned
SaveStep == op = Idle /\ op'.name = "save" /\ ~ret'.raised

\* the record a save call has to store: the fields passed, the timestamp (the
\* clock reading when none is passed), the status override and the QR path
CallFields(call, info) ==
    LET given == call.transaction_info
    IN  /\ \A k \in DOMAIN given \ {"timestamp", "order_status"} : info[k] = given[k]
        /\ info.timestamp = Get(given, "timestamp", call.now)
        /\ IF Truthy(call.order_status) THEN info.order_status = call.order_status
           ELSE IF "order_status" \in DOMAIN given
           THEN info.order_status = given.order_status
           ELSE "order_status" \notin DOMAIN info
        /\ ("qr_path" \in DOMAIN info) = call.qr_image

\* C1 as stated: after any sequence of save and updateOrderStatus calls, no two
\* entries of one day file carry the same orderNumber.
C1_UniqueOrderNumbers ==
    \A d \in Days : \A i, j \in DOMAIN files[d] :
        files[d][i].order_number = files[d][j].order_number => i = j

\* C1 amended: after any sequence of save and updateOrderStatus calls, no two
\* entries of one day file carry the same non-empty orderNumber.
C1_UniqueNonEmptyOrderNumbers ==
    \A d \in Days : \A i, j \in DOMAIN files[d] :
        /\ Truthy(files[d][i].order_number)
        /\ files[d][i].order_number = files[d][j].order_number
        => i = j

\* a status update has found its order in a day file of two orders
C1_Witness ==
    /\ op.name = "update"
    /\ ret.val = TRUE
    /\ \E d \in Days :
          /\ Len(files[d]) = 2
          /\ Truthy(files[d][1].order_number)
          /\ Truthy(files[d][2].order_number)
          /\ Held(files[d], op.order_number) # {}

\* C2 as stated: a save of an orderNumber that the day file of its timestamp
\* already holds leaves exactly one entry for it, with the fields of this call,
\* at the index of the old entry, and changes no other entry.
C2_SecondSaveReplaces ==
    [][SaveStep =>
        LET info == ret'.val
            d == Date(info.timestamp)
            held == Held(files[d], info.order_number)
        IN  held # {} =>
              /\ Cardinality(Held(files'[d], info.order_number)) = 1
              /\ CallFields(op', info)
              /\ \E i \in held : files' = [files EXCEPT ![d][i] = info]]_vars

\* C2 amended: the same, for a save of a non-empty orderNumber.
C2_SecondSaveReplacesNonEmpty ==
    [][SaveStep =>
        LET info == ret'.val
            d == Date(info.timestamp)
            held == Held(files[d], info.order_number)
        IN  (Truthy(info.order_number) /\ held # {}) =>
              /\ Cardinality(Held(files'[d], info.order_number)) = 1
              /\ CallFields(op', info)
              /\ \E i \in held : files' = [files EXCEPT ![d][i] = info]]_vars

\* the second save of an order has replaced the first entry of a day file of
\* two, with other fields than the entry behind it
C2_Witness ==
    /\ op.name = "save"
    /\ ~ret.raised
    /\ Truthy(ret.val.order_number)
    /\ LET d == Date(ret.val.timestamp)
       IN  /\ Len(files[d]) = 2
           /\ files[d][1] = ret.val
           /\ files[d][2].order_number # ret.val.order_number

\* C3: a save of an orderNumber that the day file does not hold appends the
\* record and changes nothing else, and no save changes the order in which a
\* day file lists its distinct orderNumbers, other than by such an append.
C3_FirstSaveOrder ==
    [][SaveStep =>
        LET info == ret'.val
            d == Date(info.timestamp)
        IN  /\ Held(files[d], info.order_number) = {} =>
                  files' = [files EXCEPT ![d] = Append(@, info)]
            /\ \A e \in Days :
                  \/ FirstSaves(files'[e]) = FirstSaves(files[e])
                  \/ /\ e = d
                     /\ Held(files[d], info.order_number) = {}
                     /\ FirstSaves(files'[e]) =
                            Append(FirstSaves(files[e]), info.order_number)]_vars

\* a second order has been appended behind the first one
C3_Witness ==
    /\ op.name = "save"
    /\ ~ret.raised
    /\ LET d == Date(ret.val.timestamp)
       IN  /\ Len(files[d]) = 2
           /\ files[d][2] = ret.val
           /\ files[d][1].order_number # ret.val.order_number

\* the calendar days from the day of start to the day of end, as datetimes
DaysOfRange(start_date, end_date) ==
    [k \in 1 .. (Date(end_date) - Date(start_date) + 1) |->
        (Date(start_date) + k - 1) * SecPerDay]

\* C4: queryByRange(start, end) returns the concatenation, in day order, of
\* queryByDate for each calendar day from start to end inclusive, for every
\* start and end with start <= end.
C4_RangeIsConcatOfDays ==
    (op.name = "by_range" /\ op.start_date <= op.end_date) =>
        LET days == DaysOfRange(op.start_date, op.end_date)
        IN  ret.val = Concat([k \in DOMAIN days |->
                                get_transactions_by_date(files, corrupt, days[k]).val])

\* a step that is a call of updateOrderStatus
UpdateStep == op = Idle /\ op'.name = "update"

\* C5: updateOrderStatus returns true exactly when some day file holds a record
\* with the orderNumber; it then sets the orderStatus of one such record and
\* changes nothing else, and it changes nothing when it returns false.
C5_UpdateSetsOneRecord ==
    [][UpdateStep =>
        LET held == {p \in Days \X (1 .. MaxRecords) :
                        p[2] \in Held(files[p[1]], op'.order_number)}
        IN  /\ ~ret'.raised
            /\ ret'.val = (held # {})
            /\ ret'.val =>
                  \E p \in held :
                     files' = [files EXCEPT ![p[1]][p[2]] =
                                  Put(@, "order_status", op'.order_status)]
            /\ ~ret'.val => files' = files]_vars

\* an update has set the status of an order in one day file and left the
\* entry of the same order in another day file as it was
C5_Witness ==
    /\ op.name = "update"
    /\ ret.val = TRUE
    /\ \E d, e \in Days :
          /\ d # e
          /\ files[d] # <<>> /\ files[e] # <<>>
          /\ files[d][1].order_number = op.order_number
          /\ files[e][1].order_number = op.order_number
          /\ Get(files[d][1], "order_status", "UNKNOWN") = op.order_status
          /\ Get(files[e][1], "order_status", "UNKNOWN") # op.order_status

\* C6: with both bounds given, loadOrderStatusIndex has a key for every stored
\* record with an orderNumber whose timestamp in milliseconds lies in
\* [startMs, endMs], and for no other record.
C6_WindowIndexIsComplete ==
    (op.name = "load" /\ op.window # <<>>) =>
        DOMAIN ret.val =
            {o \in Orders :
                /\ Truthy(o)
                /\ \E d \in Days : \E i \in Held(files[d], o) :
                      /\ op.window[1] <= files[d][i].timestamp * MsPerSec
                      /\ files[d][i].timestamp * MsPerSec <= op.window[2]}

\* C9: findByOrder returns a record of the current day's file with the
\* orderNumber if that file holds one, and not-found otherwise, whatever the
\* other day files hold.
C9_FindOnlyToday ==
    op.name = "by_order" =>
        LET today == files[Date(op.today)]
            held == Held(today, op.order_number)
        IN  /\ ~ret.raised
            /\ held = {} => ret.val = <<>>
            /\ held # {} => \E i \in held : ret.val = <<today[i]>>

\* findByOrder has returned not-found for an order stored in another day's file
C9_Witness ==
    /\ op.name = "by_order"
    /\ ret.val = <<>>
    /\ Truthy(op.order_number)
    /\ \E d \in Days \ {Date(op.today)} : Held(files[d], op.order_number) # {}

----------------------------------------------------------------------------
(* Properties of the store on damaged day files *)

\* the day files queryByRange reads: one per step of a day from start_date
\* while the datetime is not after end_date
RangeReads(start_date, end_date) ==
    [k \in 1 .. (IF start_date <= end_date
                 THEN ((end_date - start_date) \div SecPerDay) + 1 ELSE 0) |->
        Date(start_date) + k - 1]

\* the day files loadOrderStatusIndex reads
LoadReads(window) ==
    IF window = <<>> THEN Existing(files)
    ELSE {d \in Existing(files) :
            /\ Date(window[1] \div MsPerSec) <= d
            /\ window[1] + (d - Date(window[1] \div MsPerSec)) * SecPerDay * MsPerSec
                  <= window[2]}

\* updateOrderStatus reads a damaged day file before one that holds the order
UpdateReadsDamaged(listing, order_number) ==
    \E j \in DOMAIN listing :
        /\ listing[j] \in corrupt
        /\ \A k \in 1 .. (j - 1) : Held(files[listing[k]], order_number) = {}

ReadCalls == {"by_date", "by_range", "by_order", "recent", "load", "update"}

\* what the calls other than queryByRange return on a damaged day file
FailureResults ==
    /\ op.name \in ReadCalls => ~ret.raised
    /\ (op.name = "by_date" /\ Date(op.date) \in corrupt) => ret.val = <<>>
    /\ (op.name = "by_order" /\ Date(op.today) \in corrupt) => ret.val = <<>>
    /\ (op.name = "recent" /\ corrupt # {}) => ret.val = <<>>
    /\ (op.name = "load" /\ LoadReads(op.window) \cap corrupt # {}) =>
          DOMAIN ret.val = {}
    /\ (op.name = "update" /\ UpdateReadsDamaged(op.listing, op.order_number)) =>
          ret.val = FALSE
    /\ op.name = "save" =>
          (ret.raised <=>
              Date(Get(op.transaction_info, "timestamp", op.now)) \in corrupt)

\* C10 as stated: a damaged day file never makes queryByDate, queryByRange,
\* findByOrder, recentTransactions, loadOrderStatusIndex or updateOrderStatus
\* raise; they return an empty list, not-found, an empty mapping or false, and
\* save raises.
C10_FailuresGiveEmptyResults ==
    /\ FailureResults
    /\ op.name = "by_range" =>
          LET reads == RangeReads(op.start_date, op.end_date)
          IN  (\E k \in DOMAIN reads : reads[k] \in corrupt) => ret.val = <<>>

\* C10 amended: the same, except that queryByRange returns the records of the
\* readable day files it reads, a damaged day file counting as an empty one
\* (and the empty list when stepping past the last day of a month fails).
C10_FailuresAreContained ==
    /\ FailureResults
    /\ op.name = "by_range" =>
          LET reads == RangeReads(op.start_date, op.end_date)
          IN  ret.val =
                 IF \E k \in DOMAIN reads : DayOfMonth(reads[k] * SecPerDay) = MonthLen
                 THEN <<>>
                 ELSE Concat([k \in DOMAIN reads |->
                                 IF reads[k] \in corrupt THEN <<>> ELSE files[reads[k]]])

\* queryByRange has read a damaged day file and returned the records of
\* another day
C10_Witness ==
    /\ op.name = "by_range"
    /\ ret.val # <<>>
    /\ LET reads == RangeReads(op.start_date, op.end_date)
       IN  \E k \in DOMAIN reads : reads[k] \in corrupt

----------------------------------------------------------------------------
(* Properties of the bank resolver *)

\* the name get_nganhang_id looks up is contained in no candidate of the
\* directory (it is then equal to none either, and to no key)
ReachesFuzzyPass(name_bank) ==
    \A c \in all_candidates(banks.items) :
        ~Contains(normalize_text(c), normalize_text(name_bank))

\* the similarity of a name and a candidate
Similarity(name_bank, c) ==
    token_sort_ratio(normalize_text(name_bank), normalize_text(c))

\* C7 as stated: resolve returns not-found for every query whose similarity is
\* below 66 against every candidate string of the directory.
C7_LowScoreIsNotFound ==
    (op.name = "resolve"
       /\ \A c \in all_candidates(banks.items) : ~AtLeast(Similarity(op.name_bank, c), 66))
    => ret.val = <<>>

\* C7 amended: resolve returns not-found for every query that, looked up as
\* "MBBank" when it normalizes to "mb", is contained in no candidate string and
\* whose similarity is below 66 against every candidate string.
C7_LowScoreOutsideIsNotFound ==
    (op.name = "resolve"
       /\ ReachesFuzzyPass(rewrite_mb(op.name_bank))
       /\ \A c \in all_candidates(banks.items) :
             ~AtLeast(Similarity(rewrite_mb(op.name_bank), c), 66))
    => ret.val = <<>>

\* resolve has returned not-found for a name that is near a candidate, but
\* not near enough
C7_Witness ==
    /\ op.name = "resolve"
    /\ ret.val = <<>>
    /\ ReachesFuzzyPass(rewrite_mb(op.name_bank))
    /\ \E c \in all_candidates(banks.items) :
          /\ AtLeast(Similarity(rewrite_mb(op.name_bank), c), 50)
          /\ \E i \in DOMAIN banks.items : c = banks.items[i].info.code
    /\ \A c \in all_candidates(banks.items) :
          ~AtLeast(Similarity(rewrite_mb(op.name_bank), c), 66)

\* C8: when resolve reaches the fuzzy pass and the best candidate scores at
\* least 66, it returns the routing code of a record that has the winning
\* candidate string as its key, name, code or shortName; otherwise not-found.
C8_FuzzyReturnsOwner ==
    (op.name = "resolve" /\ banks.present /\ ReachesFuzzyPass(rewrite_mb(op.name_bank)))
    => IF \E c \in all_candidates(banks.items) :
             AtLeast(Similarity(rewrite_mb(op.name_bank), c), 66)
       THEN \E i \in DOMAIN banks.items :
               /\ \E k \in 1 .. 4 : Candidates(banks.items[i])[k] = op.pick
               /\ ret.val = <<banks.items[i].info.bin>>
       ELSE ret.val = <<>>


----------------------------------------------------------------------------
(* Properties of concurrent saves *)

\* both callers have returned from a save of different order numbers to the
\* same day file, first before later, and the file is readable
RacedSaves(first, later) ==
    /\ first \in Dumped /\ later \in Dumped
    /\ first \in callers[later].before
    /\ date_file_of(first) = date_file_of(later)
    /\ callers[first].info.order_number # callers[later].info.order_number
    /\ date_file_of(later) \notin corrupt

\* C11: when two concurrent saves of different orderNumbers to one day file
\* have both returned, the file holds the later writer's record, and it holds
\* the earlier writer's record exactly when the later writer read the file
\* after the earlier one wrote it: when both read before either wrote, the
\* earlier update is lost.
C11_LastWriterWins ==
    \A first, later \in Callers :
        RacedSaves(first, later) =>
            files[date_file_of(later)] =
                IF first \in callers[later].seen
                THEN <<callers[first].info, callers[later].info>>
                ELSE <<callers[later].info>>

\* both saves have returned their records, both read before either wrote,
\* and the day file holds only the later writer's record
C11_Witness ==
    \E first, later \in Callers :
        /\ RacedSaves(first, later)
        /\ Truthy(callers[first].info.order_number)
        /\ Truthy(callers[later].info.order_number)
        /\ callers[first].ret = Returned(callers[first].info)
        /\ callers[later].ret = Returned(callers[later].info)
        /\ first \notin callers[later].seen
        /\ later \notin callers[first].seen
        /\ files[date_file_of(later)] = <<callers[later].info>>


----------------------------------------------------------------------------
(* Properties of the order status *)

\* a step that is a returned save, with no order_status field and no status
\* override, of a record whose order number the day file holds with a status
StatuslessResave(d, i) ==
    /\ SaveStep
    /\ "order_status" \notin DOMAIN op'.transaction_info
    /\ ~Truthy(op'.order_status)
    /\ d = Date(ret'.val.timestamp)
    /\ Truthy(ret'.val.order_number)
    /\ i \in Held(files[d], ret'.val.order_number)
    /\ "order_status" \in DOMAIN files[d][i]

\* the status loadOrderStatusIndex without bounds gives an order number
IndexedStatus(fs, bad, order_number) ==
    Get(load_used_orders(fs, bad, <<>>).val, order_number, "none")

\* C12 as stated: a save, with no order_status field and no status override,
\* of an orderNumber that the day file holds with a status leaves the entry
\* without an orderStatus, and loadOrderStatusIndex then maps the orderNumber
\* to "UNKNOWN".
C12_ResaveDropsStatus ==
    [][\A d \in Days : \A i \in 1 .. MaxRecords :
          StatuslessResave(d, i) =>
             /\ "order_status" \notin DOMAIN files'[d][i]
             /\ IndexedStatus(files', corrupt', ret'.val.order_number) = "UNKNOWN"]_vars

\* C12 amended: the same, with loadOrderStatusIndex mapping the orderNumber to
\* "UNKNOWN" when no earlier-dated day file holds the orderNumber too.
C12_ResaveDropsStatusOfEarliest ==
    [][\A d \in Days : \A i \in 1 .. MaxRecords :
          StatuslessResave(d, i) =>
             /\ "order_status" \notin DOMAIN files'[d][i]
             /\ (\A e \in 0 .. (d - 1) : Held(files[e], ret'.val.order_number) = {})
                   => IndexedStatus(files', corrupt', ret'.val.order_number) = "UNKNOWN"]_vars

\* updateOrderStatus has set the status of an order that only one day file
\* holds, and a save of that order on that day with no status gives a store
\* in which the entry has no orderStatus and the index maps it to "UNKNOWN"
C12_Witness ==
    /\ op.name = "update"
    /\ ret.val = TRUE
    /\ \E d \in Days : \E t \in Times :
          LET i == first_match(files[d], op.order_number)
              r == save_transaction(files, corrupt,
                                    [type |-> "buy", order_number |-> op.order_number,
                                     timestamp |-> t], FALSE, "", t)
          IN  /\ Date(t) = d
              /\ i # 0
              /\ \A e \in Days \ {d} : Held(files[e], op.order_number) = {}
              /\ Get(files[d][i], "order_status", "UNKNOWN") = op.order_status
              /\ IndexedStatus(files, corrupt, op.order_number) = op.order_status
              /\ ~r.ret.raised
              /\ "order_status" \notin DOMAIN r.files[d][i]
              /\ IndexedStatus(r.files, corrupt, op.order_number) = "UNKNOWN"

\* the day files that hold an order number
HoldingDays(order_number) == {d \in Days : Held(files[d], order_number) # {}}

\* the orderStatus a day file holds for an order number
HeldStatus(d, order_number) ==
    LET i == CHOOSE i \in Held(files[d], order_number) : TRUE
    IN  Get(files[d][i], "order_status", "UNKNOWN")

\* C13: loadOrderStatusIndex without bounds maps every non-empty orderNumber
\* that is stored to the orderStatus held in the earliest-dated day file that
\* holds it, whatever later-dated day files hold.
C13_IndexGivesEarliestStatus ==
    (op.name = "load" /\ op.window = <<>>) =>
        /\ ~ret.raised
        /\ DOMAIN ret.val = {o \in Orders : Truthy(o) /\ HoldingDays(o) # {}}
        /\ \A o \in DOMAIN ret.val :
              \E d \in HoldingDays(o) :
                 /\ \A e \in HoldingDays(o) : d <= e
                 /\ ret.val[o] = HeldStatus(d, o)

\* the index gives an order stored on two days the status of the earlier
\* day, which is not the status of the later day
C13_Witness ==
    /\ op.name = "load"
    /\ op.window = <<>>
    /\ \E o \in DOMAIN ret.val : \E d, e \in HoldingDays(o) :
          /\ d < e
          /\ HeldStatus(d, o) # HeldStatus(e, o)
          /\ ret.val[o] = HeldStatus(d, o)

====
